---- MODULE Spec2Model ----
(***************************************************************************)
(* Model of agent_skill/display.py: the key decoder _read_key (POSIX and   *)
(* win32 code paths) and the three interactive screens built on it,        *)
(* display_search_results, display_skill_detail, display_agent_selection.  *)
(*                                                                         *)
(* One behaviour of the model is one call of one screen.  The arguments of *)
(* the call are chosen in Init; the user's keypresses arrive through the   *)
(* environment action KeyPress, byte by byte as the terminal delivers them.*)
(***************************************************************************)
EXTENDS Integers, Sequences, FiniteSets

\* ------------------------------------------------------------------ bounds

\* Longest list of skills / agents handed to a screen.
MaxN == 2

\* Keypresses the user makes during one call.
MaxKeys == 3

\* Longest text handed to truncate.
MaxLen == 4

\* --------------------------------------------------------- plain helpers

Min(a, b) == IF a <= b THEN a ELSE b

\* set(selected_ids): the members of a list, duplicates and order dropped.
SetOf(s) == {s[i] : i \in DOMAIN s}

\* ------------------------------------------------------------ the inputs

\* Control bytes are written by name, printable bytes as themselves.
ESC == "ESC"
CR  == "CR"
LF  == "LF"
ETX == "ETX"
E0  == "E0"

\* What the terminal sends for one keypress on a POSIX tty.
PosixKeypresses ==
    { <<ESC, "[", "A">>,        \* Up
      <<ESC, "[", "B">>,        \* Down
      <<ESC, "[", "C">>,        \* Right
      <<ESC, "[", "D">>,        \* Left
      <<ESC, "[", "3", "~">>,   \* Delete
      <<ESC>>,                  \* Escape
      <<CR>>, <<LF>>,           \* Enter, Ctrl+J
      <<ETX>>,                  \* Ctrl+C (a byte in raw mode)
      <<"q">>, <<"Q">>, <<" ">>, <<"i">>, <<"I">>, <<"x">> }

\* What msvcrt.getch() delivers for one keypress on win32.
Win32Keypresses ==
    { <<E0, "H">>,              \* Up
      <<E0, "P">>,              \* Down
      <<E0, "K">>,              \* Left
      <<E0, "M">>,              \* Right
      <<E0, "I">>,              \* Page Up
      <<ESC>>,                  \* Escape
      <<CR>>,                   \* Enter
      <<LF>>,                   \* Ctrl+J
      <<ETX>>,                  \* Ctrl+C
      <<"q">>, <<"Q">>, <<" ">>, <<"i">>, <<"I">>, <<"x">> }

Keypresses(p) == IF p = "win32" THEN Win32Keypresses ELSE PosixKeypresses

\* The bytes of a keypress as they sit in the input queue; `first` marks the
\* byte that starts a keypress.
Bytes(kp) == [i \in 1..Len(kp) |-> [b |-> kp[i], first |-> (i = 1)]]

\* Agent ids: agents[i]['id'] = i, plus ids that belong to no agent shown.
Ids == 1..(MaxN + 1)

AgentIds(n) == 1..n

\* selected_ids as the caller passes it: None, or a list of ids.
SelectedIdsArgs ==
    { [given |-> FALSE, ids |-> <<>>] }
    \cup { [given |-> TRUE, ids |-> s] :
             s \in {<<>>} \cup {<<a>> : a \in Ids}
                          \cup {<<a, b>> : a \in Ids, b \in Ids} }

\* skill.directory_structure, by the shape that decides lines 276-283 and
\* display_directory_tree.
Payloads ==
    { "absent", "unparsable", "no_root", "well_formed",
      "children_not_list", "node_not_record", "node_no_name" }

\* ---------------------------------------------------------- _read_key

\* Line 51: the first byte opens an escape sequence.
IsEscapeStart(ch) == ch = ESC

\* Lines 64-70: classification of a first byte that is not ESC.
ClassifyCh(ch) ==
    IF ch = CR \/ ch = LF THEN "enter"
    ELSE IF ch = "q" \/ ch = "Q" THEN "q"
    ELSE IF ch = ETX THEN "ctrl+c"
    ELSE ch

\* Line 53: the second byte continues the sequence.
IsCsi(ch2) == ch2 = "["

\* Lines 55-63: classification of the third byte of ESC [ x.
ClassifyCh3(ch3) ==
    IF ch3 = "A" THEN "up"
    ELSE IF ch3 = "B" THEN "down"
    ELSE IF ch3 = "C" THEN "right"
    ELSE IF ch3 = "D" THEN "left"
    ELSE "escape"

\* Line 72: the finally clause puts back the settings saved at line 47.
RestoredModeRaw(old) == "raw"
RestoredMode(old) == old

\* Line 42: key.decode('utf-8', errors='ignore') of one byte.
Decode(b) == IF b = E0 THEN "" ELSE b

\* Line 28: the extended-key prefix.
IsWin32Prefix(k) == k = E0

\* Lines 38-42: classification of a first byte that is not the prefix.
ClassifyGetch(k) ==
    IF k = CR THEN "enter"
    ELSE IF k = "q" \/ k = "Q" THEN "q"
    ELSE Decode(k)

\* Lines 29-37 and 42: classification of the byte after the prefix.
ClassifyGetch2(k) ==
    IF k = "H" THEN "up"
    ELSE IF k = "P" THEN "down"
    ELSE IF k = "K" THEN "left"
    ELSE IF k = "M" THEN "right"
    ELSE Decode(k)

\* ------------------------------------------------- list indexing, cursor

\* Python's list[c] on a list of length n: defined for -n <= c < n.
HasItem(c, n) == -n <= c /\ c < n

\* The (1-based) position that list[c] denotes when it is defined.
Item(c, n) == IF c >= 0 THEN c + 1 ELSE n + c + 1

\* Line 170: selected_index = min(initial_index, len(skills) - 1).
ClampInitial(initial, n) == Min(initial, n - 1)

\* Lines 196 and 485: (index - 1) % len(list); n > 0 (n = 0 raises).
MoveUp(c, n) == (c - 1) % n

\* Lines 200 and 489: (index + 1) % len(list); n > 0 (n = 0 raises).
MoveDown(c, n) == (c + 1) % n

\* Lines 205 and 507: the cancel keys of the search and agent screens.
IsCancelNever(k) == FALSE
IsCancel(k) == k = "q" \/ k = "escape" \/ k = "ctrl+c"

\* ------------------------------------------------------ detail screen

\* Line 309.
IsInstall(k) == k = "i" \/ k = "I"

\* Line 311: elif key == 'left' and has_back.
IsBackAlways(k, hb) == k = "left"
IsBack(k, hb) == k = "left" /\ hb

\* Line 313.
IsDetailCancelAnyKey(k) == TRUE
IsDetailCancel(k) == k = "q" \/ k = "Q" \/ k = "escape" \/ k = "ctrl+c"

\* Lines 276-283 with display_directory_tree (322-347): what becomes of the
\* tree section.  "skipped": no payload, or parsed data without "root";
\* "omitted": json.JSONDecodeError or TypeError, caught at line 282;
\* "rendered"; "raise": AttributeError (child.get on a node that is not a
\* dict) or KeyError (child['name']), which line 282 does not catch.
TreeOutcome(p) ==
    CASE p = "absent"            -> "skipped"
      [] p = "unparsable"        -> "omitted"
      [] p = "no_root"           -> "skipped"
      [] p = "well_formed"       -> "rendered"
      [] p = "children_not_list" -> "omitted"
      [] p = "node_not_record"   -> "raise"
      [] p = "node_no_name"      -> "raise"

\* ------------------------------------------------------- agent screen

\* Lines 443-446: selected = set(selected_ids), all agents when None.
InitialSelection(arg, n) ==
    IF arg.given THEN SetOf(arg.ids) ELSE AgentIds(n)

\* Lines 494-498: toggle one id.
ToggleAddOnly(sel, id) == sel \cup {id}
Toggle(sel, id) == IF id \in sel THEN sel \ {id} ELSE sel \cup {id}

\* Lines 503-506: enter leaves the loop only with something selected.
EnterConfirmsAlways(sel) == TRUE
EnterConfirms(sel) == sel # {}

\* Line 509: return [].
CancelResultKeep(sel) == sel
CancelResult(sel) == {}

\* ------------------------------------------------------------- state

VARIABLES
    platform,        \* sys.platform: "posix" or "win32"
    screen,          \* which display_* function is called
    interactive,     \* the interactive argument
    isatty,          \* sys.stdin.isatty()
    n,               \* len(skills) / len(agents)
    initial_index,   \* display_search_results(initial_index=...)
    has_back,        \* display_skill_detail(has_back=...)
    payload,         \* skill.directory_structure, by shape
    selected_ids,    \* display_agent_selection(selected_ids=...)
    mode0,           \* the terminal mode before the call
    pc,              \* where the call is
    stdin,           \* bytes typed and not yet read
    typed,           \* keypresses made so far
    termMode,        \* the terminal's input mode
    old_settings,    \* _read_key's saved settings
    key,             \* the last value _read_key returned
    consumed,        \* bytes the current _read_key call has read
    reads,           \* calls of _read_key so far
    selected_index,  \* search screen cursor
    cursor_index,    \* agent screen cursor
    selected,        \* agent screen selection set
    run,             \* the current run of consecutive up (or down) events
    exc,             \* the exception raised, if any
    ret              \* the call's outcome

\* A call of one of the pure formatting functions, truncate or rating_stars.
VARIABLES
    fn,              \* the function called ("none" while a screen runs)
    text,            \* truncate's text, a sequence of characters
    max_length,      \* truncate's max_length
    rating,          \* rating_stars' rating, in tenths
    out              \* the string returned, a sequence of characters/glyphs

pure == <<fn, text, max_length, rating, out>>

args == <<platform, screen, interactive, isatty, n, initial_index, has_back,
          payload, selected_ids, mode0>>

term == <<termMode, old_settings>>

cursors == <<selected_index, cursor_index, selected, run>>

vars == <<args, pc, stdin, typed, term, key, consumed, reads, cursors, exc, ret,
          pure>>

\* pc values at which _read_key is waiting for a byte.
PosixReadPcs == {"ch", "ch2", "ch3"}
Win32ReadPcs == {"getch", "getch2"}
ReadPcs == PosixReadPcs \cup Win32ReadPcs

\* pc values inside the interactive loop.
LoopPcs == {"read", "dispatch"} \cup ReadPcs

NoRun == [key |-> "none", len |-> 0, start |-> 0, sel |-> {}]

\* ret.skill is a position in skills (0: None), ret.action the detail
\* screen's result ("none": None), ret.ids the agent screen's list as a set.
Running == [status |-> "running", via |-> "", skill |-> 0, index |-> 0,
            action |-> "none", ids |-> {}]

SearchRet(via, sk, ix) == [Running EXCEPT !.status = "returned", !.via = via,
                                         !.skill = sk, !.index = ix]

DetailRet(via, act) == [Running EXCEPT !.status = "returned", !.via = via,
                                      !.action = act]

AgentRet(via, ids) == [Running EXCEPT !.status = "returned", !.via = via,
                                     !.ids = ids]

Raised == [Running EXCEPT !.status = "raised", !.via = "raise"]

\* No pure function is being called.
NoPureCall ==
    /\ fn = "none"
    /\ text = <<>>
    /\ max_length = 0
    /\ rating = 0
    /\ out = <<>>

Init ==
    /\ NoPureCall
    /\ platform \in {"posix", "win32"}
    /\ screen \in {"search", "detail", "agent"}
    /\ interactive \in BOOLEAN
    /\ isatty \in BOOLEAN
    /\ mode0 \in IF platform = "posix" THEN {"cooked", "cbreak"}
                 ELSE {"cooked"}
    /\ n \in IF screen = "detail" THEN {1} ELSE 0..MaxN
    /\ initial_index \in IF screen = "search"
                         THEN (0 - MaxN - 1)..(MaxN + 1) ELSE {0}
    /\ has_back \in IF screen = "detail" THEN BOOLEAN ELSE {TRUE}
    /\ payload \in IF screen = "detail" THEN Payloads ELSE {"absent"}
    /\ selected_ids \in IF screen = "agent" THEN SelectedIdsArgs
                        ELSE {[given |-> FALSE, ids |-> <<>>]}
    /\ pc = "call"
    /\ stdin = <<>>
    /\ typed = 0
    /\ termMode = mode0
    /\ old_settings = "unset"
    /\ key = ""
    /\ consumed = <<>>
    /\ reads = 0
    /\ selected_index = 0
    /\ cursor_index = 0
    /\ selected = {}
    /\ run = NoRun
    /\ exc = "none"
    /\ ret = Running

\* ------------------------------------------------- leaving a screen

\* The call ends with outcome r.
Return(r) ==
    /\ pc' = "done"
    /\ ret' = r

\* What the except clause of the running screen returns.  Search, lines
\* 207-217: (None, 0).  Detail, lines 315-319: None.  Agent, lines 510-513:
\* list(selected), here of the selection sel.
ExceptReturnKeepsCursor(sel) ==
    CASE screen = "search" -> SearchRet("except", 0, selected_index)
      [] screen = "detail" -> DetailRet("except", "none")
      [] screen = "agent"  -> AgentRet("except", sel)
ExceptReturnCancels(sel) ==
    CASE screen = "search" -> SearchRet("except", 0, 0)
      [] screen = "detail" -> DetailRet("except", "none")
      [] screen = "agent"  -> AgentRet("except", {})
ExceptReturn(sel) ==
    CASE screen = "search" -> SearchRet("except", 0, 0)
      [] screen = "detail" -> DetailRet("except", "none")
      [] screen = "agent"  -> AgentRet("except", sel)

\* An exception of kind e reaches the screen's except clause.
Caught(e, sel) ==
    /\ exc' = e
    /\ Return(ExceptReturn(sel))

\* --------------------------------------------------------- _read_key

\* The user presses a key while the program waits for input.
KeyPress ==
    /\ pc \in ReadPcs
    /\ stdin = <<>>
    /\ typed < MaxKeys
    /\ \E kp \in Keypresses(platform) : stdin' = Bytes(kp)
    /\ typed' = typed + 1
    /\ UNCHANGED <<args, pure, pc, term, key, consumed, reads, cursors, exc, ret>>

\* Lines 25-27 / 44-49: the loop calls _read_key; on POSIX the settings are
\* saved and the terminal is put into raw mode.
ReadKeyBegin ==
    /\ pc = "read"
    /\ reads' = reads + 1
    /\ consumed' = <<>>
    /\ \/ /\ platform = "posix"
          /\ old_settings' = termMode
          /\ termMode' = "raw"
          /\ pc' = "ch"
       \/ /\ platform = "win32"
          /\ UNCHANGED term
          /\ pc' = "getch"
    /\ UNCHANGED <<args, pure, stdin, typed, key, cursors, exc, ret>>

\* One byte is taken from the input.
Take ==
    /\ stdin # <<>>
    /\ stdin' = Tail(stdin)
    /\ consumed' = Append(consumed, Head(stdin))

\* _read_key returns k on the POSIX path: the finally clause of line 72 runs.
PosixReturn(k) ==
    /\ key' = k
    /\ pc' = "dispatch"
    /\ termMode' = RestoredMode(old_settings)
    /\ UNCHANGED old_settings

\* Lines 50-51 and 64-70: ch = sys.stdin.read(1).
ReadCh ==
    /\ pc = "ch"
    /\ Take
    /\ \/ /\ IsEscapeStart(Head(stdin).b)
          /\ pc' = "ch2"
          /\ UNCHANGED <<key, term>>
       \/ /\ ~IsEscapeStart(Head(stdin).b)
          /\ PosixReturn(ClassifyCh(Head(stdin).b))
    /\ UNCHANGED <<args, pure, typed, reads, cursors, exc, ret>>

\* Lines 52-53 and 63: ch2 = sys.stdin.read(1).
ReadCh2 ==
    /\ pc = "ch2"
    /\ Take
    /\ \/ /\ IsCsi(Head(stdin).b)
          /\ pc' = "ch3"
          /\ UNCHANGED <<key, term>>
       \/ /\ ~IsCsi(Head(stdin).b)
          /\ PosixReturn("escape")
    /\ UNCHANGED <<args, pure, typed, reads, cursors, exc, ret>>

\* Lines 54-63: ch3 = sys.stdin.read(1).
ReadCh3 ==
    /\ pc = "ch3"
    /\ Take
    /\ PosixReturn(ClassifyCh3(Head(stdin).b))
    /\ UNCHANGED <<args, pure, typed, reads, cursors, exc, ret>>

\* Lines 27-28 and 38-42: key = msvcrt.getch().
Getch ==
    /\ pc = "getch"
    /\ Take
    /\ \/ /\ IsWin32Prefix(Head(stdin).b)
          /\ pc' = "getch2"
          /\ UNCHANGED key
       \/ /\ ~IsWin32Prefix(Head(stdin).b)
          /\ key' = ClassifyGetch(Head(stdin).b)
          /\ pc' = "dispatch"
    /\ UNCHANGED <<args, pure, typed, term, reads, cursors, exc, ret>>

\* Lines 29-37 and 42: the byte after the prefix.
Getch2 ==
    /\ pc = "getch2"
    /\ Take
    /\ key' = ClassifyGetch2(Head(stdin).b)
    /\ pc' = "dispatch"
    /\ UNCHANGED <<args, pure, typed, term, reads, cursors, exc, ret>>

\* The read raises (terminal I/O failure).  On POSIX the finally clause of
\* line 72 runs; the exception then reaches the screen's except clause.
ReadFails ==
    /\ pc \in ReadPcs
    /\ \/ /\ platform = "posix"
          /\ termMode' = RestoredMode(old_settings)
          /\ UNCHANGED old_settings
       \/ /\ platform = "win32"
          /\ UNCHANGED term
    /\ Caught("read", selected)
    /\ UNCHANGED <<args, pure, stdin, typed, key, consumed, reads, cursors>>

\* ------------------------------------------------ the run of moves

\* The run of consecutive k events (k is "up" or "down") that an event k
\* arriving at cursor c continues or starts.  A run is followed for one
\* full turn of the list and then starts again.
NextRun(k, c) ==
    IF run.key = k /\ run.len < n
    THEN [run EXCEPT !.len = @ + 1]
    ELSE [key |-> k, len |-> 1, start |-> c, sel |-> {}]

\* The run of consecutive space events that a space arriving at cursor c
\* with selection s continues or starts; a run is followed for two events.
NextSpaceRun(c, s) ==
    IF run.key = " " /\ run.len < 2
    THEN [run EXCEPT !.len = @ + 1]
    ELSE [key |-> " ", len |-> 1, start |-> c, sel |-> s]

\* -------------------------------------------- display_search_results

\* Lines 153-191: the empty list, the static table, or entry into the loop
\* (clamp at line 170, Live and the first render at lines 190-191).
SearchCall ==
    /\ pc = "call"
    /\ screen = "search"
    /\ \/ /\ n = 0
          /\ Return(SearchRet("static", 0, 0))
          /\ UNCHANGED <<selected_index, exc>>
       \/ /\ n # 0
          /\ ~interactive \/ ~isatty
          /\ Return(SearchRet("static", 0, 0))
          /\ UNCHANGED <<selected_index, exc>>
       \/ /\ n # 0
          /\ interactive /\ isatty
          /\ selected_index' = ClampInitial(initial_index, n)
          /\ \/ /\ pc' = "read"
                /\ UNCHANGED <<exc, ret>>
             \/ Caught("render", selected)
    /\ UNCHANGED <<args, pure, stdin, typed, term, key, consumed, reads,
                   cursor_index, selected, run>>

\* Lines 195-206: one key event handled by the search loop; a redraw
\* (live.update, live.refresh) can raise.
SearchKey ==
    /\ pc = "dispatch"
    /\ screen = "search"
    /\ \/ /\ key = "up"
          /\ selected_index' = MoveUp(selected_index, n)
          /\ run' = NextRun("up", selected_index)
          /\ \/ /\ pc' = "read"
                /\ UNCHANGED <<exc, ret>>
             \/ Caught("render", selected)
       \/ /\ key = "down"
          /\ selected_index' = MoveDown(selected_index, n)
          /\ run' = NextRun("down", selected_index)
          /\ \/ /\ pc' = "read"
                /\ UNCHANGED <<exc, ret>>
             \/ Caught("render", selected)
       \/ /\ key = "enter"
          /\ \/ /\ HasItem(selected_index, n)
                /\ Return(SearchRet("key", Item(selected_index, n),
                                    selected_index))
                /\ UNCHANGED exc
             \/ /\ ~HasItem(selected_index, n)
                /\ Caught("IndexError", selected)
          /\ UNCHANGED <<selected_index, run>>
       \/ /\ key # "enter"
          /\ IsCancel(key)
          /\ Return(SearchRet("key", 0, selected_index))
          /\ UNCHANGED <<selected_index, run, exc>>
       \/ /\ key \notin {"up", "down", "enter"}
          /\ ~IsCancel(key)
          /\ pc' = "read"
          /\ run' = NoRun
          /\ UNCHANGED <<selected_index, exc, ret>>
    /\ UNCHANGED <<args, pure, stdin, typed, term, key, consumed, reads,
                   cursor_index, selected>>

\* ---------------------------------------------- display_skill_detail

\* Lines 232-304: the panel, the tree section, and either the static return
\* of lines 318-319 or entry into the loop.
DetailCall ==
    /\ pc = "call"
    /\ screen = "detail"
    /\ \/ /\ TreeOutcome(payload) = "raise"
          /\ exc' = "tree"
          /\ Return(Raised)
       \/ /\ TreeOutcome(payload) # "raise"
          /\ ~(interactive /\ isatty)
          /\ Return(DetailRet("static", "none"))
          /\ UNCHANGED exc
       \/ /\ TreeOutcome(payload) # "raise"
          /\ interactive /\ isatty
          /\ pc' = "read"
          /\ UNCHANGED <<exc, ret>>
    /\ UNCHANGED <<args, pure, stdin, typed, term, key, consumed, reads, cursors>>

\* Lines 309-314: one key event handled by the detail loop.
DetailKey ==
    /\ pc = "dispatch"
    /\ screen = "detail"
    /\ \/ /\ IsInstall(key)
          /\ Return(DetailRet("key", "install"))
       \/ /\ ~IsInstall(key)
          /\ IsBack(key, has_back)
          /\ Return(DetailRet("key", "back"))
       \/ /\ ~IsInstall(key)
          /\ ~IsBack(key, has_back)
          /\ IsDetailCancel(key)
          /\ Return(DetailRet("key", "none"))
       \/ /\ ~IsInstall(key)
          /\ ~IsBack(key, has_back)
          /\ ~IsDetailCancel(key)
          /\ pc' = "read"
          /\ UNCHANGED ret
    /\ UNCHANGED <<args, pure, stdin, typed, term, key, consumed, reads, cursors, exc>>

\* ------------------------------------------- display_agent_selection

\* Lines 443-480: the initial selection and cursor, then the static return
\* of lines 470-472 or entry into the loop (Live and the first render).
AgentCall ==
    /\ pc = "call"
    /\ screen = "agent"
    /\ selected' = InitialSelection(selected_ids, n)
    /\ cursor_index' = 0
    /\ \/ /\ ~interactive \/ ~isatty
          /\ Return(AgentRet("static", selected'))
          /\ UNCHANGED exc
       \/ /\ interactive /\ isatty
          /\ \/ /\ pc' = "read"
                /\ UNCHANGED <<exc, ret>>
             \/ Caught("render", selected')
    /\ UNCHANGED <<args, pure, stdin, typed, term, key, consumed, reads,
                   selected_index, run>>

\* Lines 484-509 and 513: one key event handled by the agent loop.
AgentKey ==
    /\ pc = "dispatch"
    /\ screen = "agent"
    /\ \/ /\ key = "up"
          /\ \/ /\ n = 0
                /\ Caught("ZeroDivisionError", selected)
                /\ UNCHANGED <<cursor_index, run>>
             \/ /\ n # 0
                /\ cursor_index' = MoveUp(cursor_index, n)
                /\ run' = NextRun("up", cursor_index)
                /\ \/ /\ pc' = "read"
                      /\ UNCHANGED <<exc, ret>>
                   \/ Caught("render", selected)
          /\ UNCHANGED selected
       \/ /\ key = "down"
          /\ \/ /\ n = 0
                /\ Caught("ZeroDivisionError", selected)
                /\ UNCHANGED <<cursor_index, run>>
             \/ /\ n # 0
                /\ cursor_index' = MoveDown(cursor_index, n)
                /\ run' = NextRun("down", cursor_index)
                /\ \/ /\ pc' = "read"
                      /\ UNCHANGED <<exc, ret>>
                   \/ Caught("render", selected)
          /\ UNCHANGED selected
       \/ /\ key = " "
          /\ \/ /\ ~HasItem(cursor_index, n)
                /\ Caught("IndexError", selected)
                /\ run' = NoRun
                /\ UNCHANGED selected
             \/ /\ HasItem(cursor_index, n)
                /\ selected' = Toggle(selected, Item(cursor_index, n))
                /\ run' = NextSpaceRun(cursor_index, selected)
                /\ \/ /\ pc' = "read"
                      /\ UNCHANGED <<exc, ret>>
                   \/ Caught("render", selected')
          /\ UNCHANGED cursor_index
       \/ /\ key = "enter"
          /\ \/ /\ ~EnterConfirms(selected)
                /\ pc' = "read"
                /\ UNCHANGED ret
             \/ /\ EnterConfirms(selected)
                /\ Return(AgentRet("key", selected))
          /\ run' = NoRun
          /\ UNCHANGED <<cursor_index, selected, exc>>
       \/ /\ key # "enter"
          /\ IsCancel(key)
          /\ Return(AgentRet("key", CancelResult(selected)))
          /\ UNCHANGED <<cursor_index, selected, run, exc>>
       \/ /\ key \notin {"up", "down", " ", "enter"}
          /\ ~IsCancel(key)
          /\ pc' = "read"
          /\ run' = NoRun
          /\ UNCHANGED <<cursor_index, selected, exc, ret>>
    /\ UNCHANGED <<args, pure, stdin, typed, term, key, consumed, reads,
                   selected_index>>

\* ----------------------------------------------------- specification

Next ==
    \/ KeyPress
    \/ ReadKeyBegin
    \/ ReadCh
    \/ ReadCh2
    \/ ReadCh3
    \/ Getch
    \/ Getch2
    \/ ReadFails
    \/ SearchCall
    \/ SearchKey
    \/ DetailCall
    \/ DetailKey
    \/ AgentCall
    \/ AgentKey

Spec == Init /\ [][Next]_vars

TypeOK ==
    /\ pc \in {"call", "done"} \cup LoopPcs
    /\ typed \in 0..MaxKeys
    /\ ret.status \in {"running", "returned", "raised"}

\* ------------------------------------------------------------ claims

CancelKeys == {"q", "escape", "ctrl+c"}

\* The static branch of the running screen is the one taken.
StaticCall ==
    \/ screen = "search" /\ (n = 0 \/ ~interactive \/ ~isatty)
    \/ screen = "detail" /\ (~interactive \/ ~isatty)
    \/ screen = "agent" /\ (~interactive \/ ~isatty)

\* The cursor of the running screen.
Cursor == IF screen = "search" THEN selected_index ELSE cursor_index

\* C1: on the search screen over N >= 1 skills, whatever initial_index the
\* caller gave, selected_index is in [0, N) in every state of the loop.
C1_CursorAlwaysValid ==
    (screen = "search" /\ pc \in LoopPcs) =>
        (0 <= selected_index /\ selected_index < n)

\* C2: on the agent screen an enter received with an empty selection does
\* not end the loop and changes neither cursor nor selection; an enter
\* received with a non-empty selection ends the loop and the ids returned
\* are exactly the selection at that moment.
C2_EnterNeedsSelection ==
    [][ (screen = "agent" /\ pc = "dispatch" /\ key = "enter") =>
          IF selected = {}
          THEN /\ pc' = "read"
               /\ ret' = ret
               /\ cursor_index' = cursor_index
               /\ selected' = selected
          ELSE /\ pc' = "done"
               /\ ret'.status = "returned"
               /\ ret'.ids = selected ]_vars

\* C2 witness: a call that started with nothing selected has returned on
\* enter with the selection the user built.
C2_Witness ==
    /\ screen = "agent"
    /\ selected_ids.given /\ selected_ids.ids = <<>>
    /\ pc = "done"
    /\ key = "enter"
    /\ ret.via = "key"
    /\ ret.ids = selected
    /\ selected # {}

\* C3: on the agent screen a cancel key (q, escape, ctrl+c) ends the loop
\* and the screen returns an empty collection, whatever is selected.
C3_CancelReturnsEmpty ==
    [][ (screen = "agent" /\ pc = "dispatch" /\ key \in CancelKeys) =>
          /\ pc' = "done"
          /\ ret'.status = "returned"
          /\ ret'.ids = {} ]_vars

\* C3 witness: the agent screen has returned empty on a cancel key pressed
\* after a toggle, with agents still selected.
C3_Witness ==
    /\ screen = "agent"
    /\ pc = "done"
    /\ key \in CancelKeys
    /\ ret.via = "key"
    /\ ret.ids = {}
    /\ selected # {}
    /\ selected # InitialSelection(selected_ids, n)

\* C4: on the search screen enter returns (skills[c], c) and a cancel key
\* returns (None, c), c being the cursor, after any keys and for any
\* initial index.
C4_SearchReturnsCursor ==
    (screen = "search" /\ pc = "done") =>
        /\ key = "enter" =>
              /\ ret.status = "returned"
              /\ ret.skill \in 1..n
              /\ ret.skill = Item(selected_index, n)
              /\ ret.index = selected_index
        /\ key \in CancelKeys =>
              /\ ret.status = "returned"
              /\ ret.skill = 0
              /\ ret.index = selected_index

\* C5: on the search and agent screens with N >= 1, up moves the cursor
\* from c to (c - 1) mod N and down to (c + 1) mod N, and N consecutive up
\* (or down) events bring the cursor back to where it started.
C5_MovesWrapAndReturn ==
    (screen \in {"search", "agent"} /\ pc \in LoopPcs /\ n >= 1) =>
        /\ run.key = "up" => Cursor = (run.start - run.len) % n
        /\ run.key = "down" => Cursor = (run.start + run.len) % n
        /\ (run.key \in {"up", "down"} /\ run.len = n) => Cursor = run.start

\* C6: on the detail screen left returns back if and only if has_back is
\* true; with has_back false left leaves the loop reading the next key,
\* and back is never the result of such a call.
C6_LeftBackOnlyWithHasBack ==
    [][ /\ (screen = "detail" /\ pc = "dispatch" /\ key = "left") =>
              IF has_back
              THEN pc' = "done" /\ ret' = DetailRet("key", "back")
              ELSE pc' = "read" /\ ret' = ret
        /\ ret'.action = "back" => (has_back /\ key = "left") ]_vars

\* C6 witness: a has_back=False call has taken a left and is back at the
\* top of its loop, nothing returned.
C6_Witness ==
    /\ screen = "detail"
    /\ ~has_back
    /\ key = "left"
    /\ pc = "read"
    /\ ret.status = "running"

\* C7: on the agent screen, whatever selected_ids the caller gave, the
\* selection set is always a subset of the ids of the agents shown, and so
\* is every returned collection.
C7_SelectionWithinAgents ==
    (screen = "agent" /\ pc # "call") =>
        /\ selected \subseteq AgentIds(n)
        /\ ret.ids \subseteq AgentIds(n)

\* C8: on every static path no key is read and the result is fixed:
\* (None, 0) for the search screen, None for the detail screen, the
\* initial selection (all agent ids when none was given) for the agent
\* screen.
C8_StaticPathsFixed ==
    StaticCall =>
        /\ reads = 0
        /\ pc \in {"call", "done"}
        /\ pc = "done" =>
              /\ ret.status = "returned"
              /\ screen = "search" => (ret.skill = 0 /\ ret.index = 0)
              /\ screen = "detail" => ret.action = "none"
              /\ screen = "agent" =>
                    ret.ids = IF selected_ids.given
                              THEN {selected_ids.ids[i] :
                                      i \in 1..Len(selected_ids.ids)}
                              ELSE 1..n

\* C9: the terminal is in raw mode only while a key read is in progress;
\* _read_key saves the prior mode, sets raw mode and restores the saved
\* mode on every exit, a failing read included, so that outside a read the
\* terminal mode is the mode it had before the screen started.
C9_RawOnlyDuringRead ==
    /\ pc \in PosixReadPcs => (termMode = "raw" /\ old_settings = mode0)
    /\ pc \notin PosixReadPcs => termMode = mode0

\* C9 witness: on POSIX a key was read and returned, a later read failed,
\* and the screen has fallen back with the terminal in its prior mode.
C9_Witness ==
    /\ platform = "posix"
    /\ pc = "done"
    /\ exc = "read"
    /\ reads >= 2
    /\ old_settings = mode0
    /\ termMode = mode0

\* C10: each call of _read_key consumes the bytes of exactly one keypress
\* and none of the next, and returns once that keypress is available: it
\* never waits for further input with a whole keypress already read.
C10_OneKeypressPerCall ==
    /\ pc = "dispatch" =>
          /\ Len(consumed) >= 1
          /\ consumed[1].first
          /\ \A i \in 2..Len(consumed) : ~consumed[i].first
          /\ stdin # <<>> => Head(stdin).first
    /\ (pc \in ReadPcs /\ consumed # <<>>) => stdin # <<>>

\* The bytes b of a keypress open one of the four arrow sequences ESC [ A-D.
IsArrowSequence(b) ==
    /\ Len(b) >= 3
    /\ b[1].b = ESC
    /\ b[2].b = "["
    /\ b[3].b \in {"A", "B", "C", "D"}

\* The event the decoder contract assigns to the bytes b read by one call:
\* arrows for ESC [ A-D, escape for an escape byte followed by anything
\* else, enter for CR and LF, q for q and Q, ctrl+c for the interrupt byte,
\* and any other single byte as itself.
DecoderContract(b) ==
    IF b[1].b = ESC
    THEN IF IsArrowSequence(b)
         THEN CASE b[3].b = "A" -> "up"
                [] b[3].b = "B" -> "down"
                [] b[3].b = "C" -> "right"
                [] b[3].b = "D" -> "left"
         ELSE "escape"
    ELSE IF b[1].b \in {CR, LF} THEN "enter"
    ELSE IF b[1].b \in {"q", "Q"} THEN "q"
    ELSE IF b[1].b = ETX THEN "ctrl+c"
    ELSE b[1].b

\* C11: the decoder classifies ESC [ A/B/C/D as up/down/right/left, an
\* escape byte followed by anything else as escape, CR and LF as enter,
\* q and Q as q, and every other single byte as itself; the result is
\* always one event of this vocabulary.  (Keys that arrive behind the win32
\* prefix byte are outside this statement.)
C11_ClassifiesByContract ==
    (pc = "dispatch" /\ consumed[1].b # E0) =>
        key = DecoderContract(consumed)

\* C12: on both platform paths the interrupt byte is classified as ctrl+c
\* and the Escape key as escape, and on each screen ctrl+c, escape and q
\* end the loop with the same cancel value.
C12_InterruptAndEscapeCancel ==
    /\ pc = "dispatch" =>
          /\ consumed[1].b = ETX => key = "ctrl+c"
          /\ (consumed[1].b = ESC /\ ~IsArrowSequence(consumed)) =>
                key = "escape"
    /\ (pc = "done" /\ ret.via = "key" /\ key \in CancelKeys) =>
          /\ screen = "search" => ret = SearchRet("key", 0, selected_index)
          /\ screen = "detail" => ret = DetailRet("key", "none")
          /\ screen = "agent" => ret = AgentRet("key", {})

C15_DetailNeverRaises ==
    (screen = "detail" /\ pc = "done") =>
        /\ ret.status = "returned"
        /\ ret.action \in {"install", "back", "none"}

\* ------------------------------------------- rating_stars and truncate

\* Line 79: max_stars: int = 5.
MaxStars == 5

Max(a, b) == IF a >= b THEN a ELSE b

\* Python's s[:k]: the first k characters, or for k < 0 all but the last -k.
PyPrefix(s, k) ==
    IF k >= 0 THEN SubSeq(s, 1, Min(k, Len(s)))
    ELSE SubSeq(s, 1, Max(Len(s) + k, 0))

\* Python's g * k: k copies of the glyph g, none when k <= 0.
Repeat(g, k) == [i \in 1..k |-> g]

\* Line 94: the "..." suffix.
Ellipsis == <<".", ".", ".">>

\* Lines 90-94: truncate(text, max_length).
Truncate(t, m) ==
    IF t = <<>> THEN <<>>
    ELSE IF Len(t) <= m THEN t
    ELSE PyPrefix(t, m - 3) \o Ellipsis

\* Lines 81-85: rating_stars(rating) with max_stars = 5; r is the rating in
\* tenths, so int(rating) is r \div 10 and rating - full_stars >= 0.5 is
\* r - 10 * full_stars >= 5.
RatingStarsNoRoomForHalf(r) ==
    LET full_stars == r \div 10
        half_star  == r - 10 * full_stars >= 5
        empty_stars == MaxStars - full_stars
    IN  Repeat("full", full_stars)
          \o (IF half_star THEN <<"half">> ELSE <<>>)
          \o Repeat("empty", empty_stars)
RatingStars(r) ==
    LET full_stars == r \div 10
        half_star  == r - 10 * full_stars >= 5
        empty_stars == MaxStars - full_stars - (IF half_star THEN 1 ELSE 0)
    IN  Repeat("full", full_stars)
          \o (IF half_star THEN <<"half">> ELSE <<>>)
          \o Repeat("empty", empty_stars)

\* Texts of up to MaxLen characters.
Chars == {"a", "b"}
Texts == UNION {[1..k -> Chars] : k \in 0..MaxLen}

\* No screen is being called.
NoScreenCall ==
    /\ platform = "posix"
    /\ screen = "none"
    /\ interactive = FALSE
    /\ isatty = FALSE
    /\ mode0 = "cooked"
    /\ n = 0
    /\ initial_index = 0
    /\ has_back = TRUE
    /\ payload = "absent"
    /\ selected_ids = [given |-> FALSE, ids |-> <<>>]
    /\ stdin = <<>>
    /\ typed = 0
    /\ termMode = "cooked"
    /\ old_settings = "unset"
    /\ key = ""
    /\ consumed = <<>>
    /\ reads = 0
    /\ selected_index = 0
    /\ cursor_index = 0
    /\ selected = {}
    /\ run = NoRun
    /\ exc = "none"
    /\ ret = Running

\* A call of truncate(text, max_length), or of rating_stars(rating) with a
\* rating of 0.0 to 5.0.
PureInit ==
    /\ NoScreenCall
    /\ pc = "call"
    /\ out = <<>>
    /\ \/ /\ fn = "truncate"
          /\ text \in Texts
          /\ max_length \in 0..(MaxLen + 1)
          /\ rating = 0
       \/ /\ fn = "rating_stars"
          /\ rating \in 0..(10 * MaxStars)
          /\ text = <<>>
          /\ max_length = 0

\* Lines 88-94.
TruncateCall ==
    /\ pc = "call"
    /\ fn = "truncate"
    /\ out' = Truncate(text, max_length)
    /\ pc' = "done"
    /\ UNCHANGED <<args, stdin, typed, term, key, consumed, reads, cursors,
                   exc, ret, fn, text, max_length, rating>>

\* Lines 79-85.
RatingStarsCall ==
    /\ pc = "call"
    /\ fn = "rating_stars"
    /\ out' = RatingStars(rating)
    /\ pc' = "done"
    /\ UNCHANGED <<args, stdin, typed, term, key, consumed, reads, cursors,
                   exc, ret, fn, text, max_length, rating>>

PureNext ==
    \/ TruncateCall
    \/ RatingStarsCall

PureSpec == PureInit /\ [][PureNext]_vars

\* C16: truncate(text, max_length), for every text and max_length >= 0:
\* a text no longer than max_length is returned unchanged; a longer text
\* yields a string of length exactly max_length that ends in "..." and
\* starts with the first max_length - 3 characters of the text; the result
\* is never longer than max_length.
C16_TruncateWithinMaxLength ==
    (fn = "truncate" /\ pc = "done") =>
        /\ Len(text) <= max_length => out = text
        /\ Len(text) > max_length =>
              /\ Len(out) = max_length
              /\ Len(out) >= 3
              /\ \A i \in (Len(out) - 2)..Len(out) : out[i] = "."
              /\ \A i \in 1..(max_length - 3) : out[i] = text[i]
        /\ Len(out) <= max_length

\* C17: rating_stars(rating) for a rating of 0.0 to 5.0 in tenths:
\* floor(rating) full stars, then one half star exactly when the fractional
\* part is >= 0.5, then empty stars, 5 glyphs in all.
C17_RatingStarsFiveGlyphs ==
    (fn = "rating_stars" /\ pc = "done") =>
        /\ Len(out) = 5
        /\ \A i \in 1..Len(out) :
              out[i] = IF i <= rating \div 10 THEN "full"
                       ELSE IF i = (rating \div 10) + 1 /\ rating % 10 >= 5
                            THEN "half"
                       ELSE "empty"

\* C17 witness: rating_stars(3.7) has returned 3 full, 1 half, 1 empty.
C17_Witness ==
    /\ fn = "rating_stars"
    /\ pc = "done"
    /\ rating = 37
    /\ out = <<"full", "full", "full", "half", "empty">>

\* C18: keys change only the state they are bound to.  Search: a key other
\* than up/down that does not end the loop leaves the cursor unchanged.
\* Agent: up/down leave the selection unchanged, space leaves the cursor
\* unchanged, a rejected enter and every unbound key leave both unchanged.
\* Detail: every unbound key leaves the loop waiting, nothing returned.
C18_KeysChangeOnlyTheirState ==
    [][ pc = "dispatch" =>
          /\ (screen = "search" /\ key \notin {"up", "down"} /\ pc' # "done")
                => (pc' = "read" /\ selected_index' = selected_index)
          /\ (screen = "agent" /\ key \in {"up", "down"})
                => selected' = selected
          /\ (screen = "agent" /\ key = " ")
                => cursor_index' = cursor_index
          /\ (screen = "agent"
                /\ \/ key = "enter" /\ selected = {}
                   \/ key \notin {"up", "down", " ", "enter"} \cup CancelKeys)
                => /\ pc' = "read"
                   /\ cursor_index' = cursor_index
                   /\ selected' = selected
                   /\ ret' = ret
          /\ (screen = "detail"
                /\ key \notin {"i", "I", "q", "Q", "escape", "ctrl+c"}
                /\ ~(key = "left" /\ has_back))
                => (pc' = "read" /\ ret' = ret) ]_vars

\* C18 witness: the detail screen has ignored the right arrow and is back
\* at the top of its loop, nothing returned.
C18_Witness ==
    /\ screen = "detail"
    /\ key = "right"
    /\ pc = "read"
    /\ reads >= 1
    /\ ret = Running

\* C19: on the agent screen space toggles exactly the agent under the
\* cursor: its id is added if absent and removed if present, every other
\* id keeps its membership, and two consecutive spaces at the same cursor
\* restore the selection.
C19_SpaceTogglesCursorAgent ==
    [][ /\ (screen = "agent" /\ pc = "dispatch" /\ key = " " /\ n >= 1) =>
              /\ cursor_index + 1 \in selected =>
                    selected' = selected \ {cursor_index + 1}
              /\ cursor_index + 1 \notin selected =>
                    selected' = selected \cup {cursor_index + 1}
        /\ (run'.key = " " /\ run'.len = 2) =>
              (selected' = run'.sel /\ cursor_index' = run'.start) ]_vars

\* C19 witness: two consecutive spaces have been handled at one cursor
\* position and the selection is what it was before them.
C19_Witness ==
    /\ screen = "agent"
    /\ run.key = " "
    /\ run.len = 2
    /\ key = " "
    /\ pc = "read"
    /\ selected = run.sel

FairSpec ==
    /\ Init
    /\ [][Next]_vars
    /\ WF_vars(SearchKey)
    /\ WF_vars(DetailKey)
    /\ WF_vars(AgentKey)

\* The key event now being handled is one that ends the running screen's
\* loop: enter or a cancel key on the search screen; i/I, a cancel key, or
\* left with has_back on the detail screen; a cancel key, or enter with a
\* non-empty selection, on the agent screen.
TerminatingEvent ==
    /\ pc = "dispatch"
    /\ \/ screen = "search" /\ key \in {"enter"} \cup CancelKeys
       \/ screen = "detail" /\ key \in {"i", "I"} \cup CancelKeys
       \/ screen = "detail" /\ key = "left" /\ has_back
       \/ screen = "agent" /\ key \in CancelKeys
       \/ screen = "agent" /\ key = "enter" /\ selected # {}

\* C21: every interactive loop ends at the first terminating key event and
\* reads no key event after it; a screen that returns on a key returns on
\* a terminating one; once a terminating event is delivered the screen
\* eventually returns, and it returns once: after the return no key is read
\* and the result does not change.
C21_LoopEndsAtTerminatingEvent ==
    /\ [][ /\ TerminatingEvent => (pc' = "done" /\ reads' = reads)
           /\ (pc = "dispatch" /\ pc' = "done" /\ ret'.via = "key")
                 => TerminatingEvent
           /\ pc = "done" => (pc' = "done" /\ ret' = ret /\ reads' = reads) ]_vars
    /\ (TerminatingEvent ~> (pc = "done" /\ ret.status = "returned"))

\* C21 witness: a screen has returned on a terminating key that was not the
\* first key event of the call.
C21_Witness ==
    /\ screen \in {"search", "detail", "agent"}
    /\ pc = "done"
    /\ ret.via = "key"
    /\ ret.status = "returned"
    /\ reads >= 2
    /\ reads = typed

====
